---- MODULE Spec2Model ----
(***************************************************************************)
(* College event feedback analysis (college_event_feedback_analysis.py).   *)
(*                                                                         *)
(* A table (DataFrame) is a record [rows, categories]: rows is the         *)
(* sequence of its records, categories the categories of YearOfStudy once  *)
(* the column has been cast to the categorical dtype ({} before).          *)
(*                                                                         *)
(* Units.  SpeakerRating, WorkshopRating and FoodRating are float64 cells  *)
(* (they hold NaN); a cell of value x is held as the integer 2x, so that   *)
(* the median of an even number of integers (k + 0.5) is exact.            *)
(* OverallRating and YearOfStudy are int64 cells, held as they are.        *)
(* A polarity p in [-1, 1] is held as the integer p * 10^7.                *)
(*                                                                         *)
(* The in-place calls of clean_data (Series.fillna / Series.replace with   *)
(* inplace=True on df[col]) are modelled as they act in the pandas         *)
(* versions the script runs on (freq='H' is accepted): they write through  *)
(* to the frame.                                                           *)
(***************************************************************************)
EXTENDS Integers, Sequences, FiniteSets, TLC

VARIABLES pc, scorer, feedback_df, cleaned_df, sentiment_df,
          saved, open_figures, report

vars == <<pc, scorer, feedback_df, cleaned_df, sentiment_df,
          saved, open_figures, report>>

-----------------------------------------------------------------------------
(* Bounds of the model *)

\* seeds of the random source tried by the generator: 0..MaxSeed
MaxSeed == 11
\* lexicons tried for the external polarity scorer: multipliers 0..MaxMult
MaxMult == 1
\* rows of the tables handed directly to clean_data
MaxRows == 3
\* rows of the tables whose OverallRating / YearOfStudy vary freely
MaxInsightRows == 2

-----------------------------------------------------------------------------
(* Program constants *)

NaN == -1
NumRecords == 100
RatingLow == 1
RatingHigh == 6
YearLow == 1
YearHigh == 5

NoFeedback == "No feedback"

WhatDidYouLikeTexts ==
  << "The keynote speaker was inspiring.",
     "I loved the hands-on workshop.",
     "The food was great and there were many options.",
     "Networking with professionals was the best part.",
     "The event was well-organized.",
     "Good food",
     "Nothing much",
     "The sessions were very informative.",
     "I enjoyed the variety of topics covered.",
     "The venue was excellent." >>

ImprovementsTexts ==
  << "The workshop was too crowded.",
     "More vegetarian food options would be nice.",
     "The breaks were too short.",
     "It was hard to find the rooms.",
     "The audio in the main hall was not clear.",
     "Better signage",
     "More interactive sessions",
     "The registration process was a bit slow.",
     "Wi-Fi was unstable.",
     "I wish there were more Q&A opportunities." >>

AttendedEventsTexts ==
  << "Keynote, Workshop, Networking",
     "Keynote, Workshop",
     "Networking",
     "Keynote, Networking",
     "Workshop",
     "Keynote",
     "Workshop, Networking",
     "Keynote, Workshop, Networking",
     "Networking",
     "Keynote, Workshop" >>

RatingCols == <<"SpeakerRating", "WorkshopRating", "FoodRating">>

\* a float64 cell holding the integer rating r
F(r) == 2 * r

\* list * k of the source: the i-th element of a list repeated cyclically
Cycle(list, i) == list[((i - 1) % Len(list)) + 1]

NoDF == [rows |-> << >>, categories |-> {}]

Column(df, col) == [i \in 1..Len(df.rows) |-> df.rows[i][col]]

SetColumn(df, col, vals) ==
  [df EXCEPT !.rows = [i \in 1..Len(df.rows) |-> [df.rows[i] EXCEPT ![col] = vals[i]]]]

-----------------------------------------------------------------------------------------------------------------------------------------------------
(* The random source.  numpy's generator is seeded from the operating       *)
(* system; the model draws the seed from 0..MaxSeed and takes the n-th draw *)
(* of a run from a counter-based generator: a fixed mix of seed and n.      *)

Draw(seed, n) ==
  LET k == n + 31 * seed + 17
  IN (75 * k * k + 7919 * n + 104729 * seed) % 65521

\* np.random.randint(low, high, size): size integers in low..high-1, the
\* draws pos+1 .. pos+size of the run
RandInt(seed, pos, low, high, size) ==
  [out |-> [i \in 1..size |-> low + (Draw(seed, pos + i) % (high - low))],
   pos |-> pos + size]

\* round(frac * len) of DataFrame.sample(frac=...), frac = num / den:
\* Python's round, halves to the even integer
SampleSize(num, den, len) ==
  LET q == (num * len) \div den
      r == (num * len) % den
  IN IF 2 * r > den \/ (2 * r = den /\ q % 2 = 1) THEN q + 1 ELSE q

\* SampleIndex with a fault: the rows are drawn with replacement
\* (sample(..., replace=True)), so a row may be drawn twice
SampleWithReplacement(seed, pos, len, n, chosen) ==
  [out |-> {(Draw(seed, pos + k) % len) + 1 : k \in 1..n}, pos |-> pos + n]

\* df.sample(frac).index: n distinct row positions, drawn without replacement
RECURSIVE SampleIndex(_, _, _, _, _)
SampleIndex(seed, pos, len, n, chosen) ==
  IF Cardinality(chosen) >= n \/ Cardinality(chosen) >= len
  THEN [out |-> chosen, pos |-> pos]
  ELSE SampleIndex(seed, pos + 1, len, n,
                   chosen \cup {(Draw(seed, pos + 1) % len) + 1})

\* df.loc[index, col] = value
SetLoc(df, index, col, value) ==
  [df EXCEPT !.rows = [i \in 1..Len(df.rows) |->
      IF i \in index THEN [df.rows[i] EXCEPT ![col] = value] ELSE df.rows[i]]]

create_dummy_data(seed) ==
  LET overall  == RandInt(seed, 0, RatingLow, RatingHigh, NumRecords)
      speaker  == RandInt(seed, overall.pos, RatingLow, RatingHigh, NumRecords)
      workshop == RandInt(seed, speaker.pos, RatingLow, RatingHigh, NumRecords)
      food     == RandInt(seed, workshop.pos, RatingLow, RatingHigh, NumRecords)
      year     == RandInt(seed, food.pos, YearLow, YearHigh, NumRecords)
      df0 == [rows |-> [i \in 1..NumRecords |->
                [Timestamp      |-> i - 1,
                 OverallRating  |-> overall.out[i],
                 SpeakerRating  |-> F(speaker.out[i]),
                 WorkshopRating |-> F(workshop.out[i]),
                 FoodRating     |-> F(food.out[i]),
                 WhatDidYouLike |-> Cycle(WhatDidYouLikeTexts, i),
                 Improvements   |-> Cycle(ImprovementsTexts, i),
                 AttendedEvents |-> Cycle(AttendedEventsTexts, i),
                 YearOfStudy    |-> year.out[i]]],
              categories |-> {}]
      n10 == SampleSize(1, 10, NumRecords)
      s1  == SampleIndex(seed, year.pos, NumRecords, n10, {})
      df1 == SetLoc(df0, s1.out, RatingCols[1], NaN)
      s2  == SampleIndex(seed, s1.pos, NumRecords, n10, {})
      df2 == SetLoc(df1, s2.out, RatingCols[2], NaN)
      s3  == SampleIndex(seed, s2.pos, NumRecords, n10, {})
      df3 == SetLoc(df2, s3.out, RatingCols[3], NaN)
      s4  == SampleIndex(seed, s3.pos, NumRecords, SampleSize(5, 100, NumRecords), {})
  IN SetLoc(df3, s4.out, "Improvements", "")

-----------------------------------------------------------------------------
(* clean_data *)

\* Series.isnull()
isnull(col) == [i \in DOMAIN col |-> col[i] = NaN]

\* Series.isnull().any()
any(flags) == \E i \in DOMAIN flags : flags[i]

\* the non-missing cells of a column, in row order
dropna(col) == SelectSeq(col, LAMBDA v : v # NaN)

\* the place of vals[i] once vals is sorted (equal values keep their order)
SortedPlace(vals, i) ==
  1 + Cardinality({j \in 1..Len(vals) :
                     vals[j] < vals[i] \/ (vals[j] = vals[i] /\ j < i)})

\* the k-th value of vals in ascending order
Kth(vals, k) == vals[CHOOSE i \in 1..Len(vals) : SortedPlace(vals, i) = k]

\* Middle with a fault: the lower of the two middle values of an even number
MiddleLower(vals) == Kth(vals, (Len(vals) + 1) \div 2)

\* the middle of the values in ascending order: the middle one of an odd
\* number, the mean of the two middle ones of an even number (cells are held
\* doubled, so the mean of two integer ratings is exact)
Middle(vals) ==
  LET n == Len(vals)
  IN IF n % 2 = 1 THEN Kth(vals, (n + 1) \div 2)
     ELSE (Kth(vals, n \div 2) + Kth(vals, (n \div 2) + 1)) \div 2

\* Series.median(): skips NaN; NaN when no value is left
median(col) ==
  LET vals == dropna(col)
  IN IF Len(vals) = 0 THEN NaN ELSE Middle(vals)

\* fillna with a fault: the missing cells are filled with 0
fillna_zero(col, value) == [i \in DOMAIN col |-> IF col[i] = NaN THEN 0 ELSE col[i]]

\* Series.fillna(value): filling with NaN leaves the cell missing
fillna(col, value) == [i \in DOMAIN col |-> IF col[i] = NaN THEN value ELSE col[i]]

\* replace with a fault: old is matched as a pattern (regex=True); the empty
\* pattern matches at the start of every cell
replace_regex(col, old, new) ==
  [i \in DOMAIN col |-> IF old = "" THEN new \o col[i]
                        ELSE IF col[i] = old THEN new ELSE col[i]]

\* Series.replace(old, new): whole-cell match
replace(col, old, new) == [i \in DOMAIN col |-> IF col[i] = old THEN new ELSE col[i]]

\* one turn of the loop over the rating columns
FillMissing(df, col) ==
  IF any(isnull(Column(df, col)))
  THEN SetColumn(df, col, fillna(Column(df, col), median(Column(df, col))))
  ELSE df

\* Series.astype('category'): the categories are the distinct values present
astype_category(df, col) ==
  [df EXCEPT !.categories = {df.rows[i][col] : i \in 1..Len(df.rows)}]

clean_data(df) ==
  LET d1 == FillMissing(df, RatingCols[1])
      d2 == FillMissing(d1, RatingCols[2])
      d3 == FillMissing(d2, RatingCols[3])
      d4 == SetColumn(d3, "Improvements",
                      replace(Column(d3, "Improvements"), "", NoFeedback))
      d5 == SetColumn(d4, "WhatDidYouLike",
                      replace(Column(d4, "WhatDidYouLike"), "", NoFeedback))
  IN astype_category(d5, "YearOfStudy")

-----------------------------------------------------------------------------
(* perform_sentiment_analysis *)

AllTextSeq == WhatDidYouLikeTexts \o ImprovementsTexts \o <<NoFeedback>>

AllTexts == {AllTextSeq[i] : i \in 1..Len(AllTextSeq)} \cup {""}

TextIdx(t) == CHOOSE i \in 1..Len(AllTextSeq) : AllTextSeq[i] = t

\* polarities (in 10^-7) an external lexicon may give a text
PolaritySamples ==
  << -10000000, -2000000, -1000001, -1000000, 0, 1000000, 1000001, 10000000 >>

\* TextBlob(x).sentiment.polarity is external: a lexicon is one function from
\* text to polarity.  The model tries the lexicons that spread the sample
\* polarities over the texts (multiplier m, offset k); a text without words
\* has polarity 0.
Lexicon(m, k) ==
  [t \in AllTexts |->
     IF t = "" THEN 0
     ELSE PolaritySamples[((TextIdx(t) * m + k) % Len(PolaritySamples)) + 1]]

Lexicons == {Lexicon(m, k) : m \in 0..MaxMult, k \in 0..(Len(PolaritySamples) - 1)}

\* get_sentiment_category with a fault: the cutoffs themselves are labelled
get_sentiment_category_inclusive(polarity) ==
  IF polarity >= 1000000 THEN "Positive"
  ELSE IF polarity <= -1000000 THEN "Negative"
       ELSE "Neutral"

get_sentiment_category(polarity) ==
  IF polarity > 1000000 THEN "Positive"
  ELSE IF polarity < -1000000 THEN "Negative"
       ELSE "Neutral"

perform_sentiment_analysis(df, polarity_of) ==
  [df EXCEPT !.rows = [i \in 1..Len(df.rows) |->
     LET r == df.rows[i]
         like == polarity_of[r.WhatDidYouLike]
         impr == polarity_of[r.Improvements]
     IN [Timestamp      |-> r.Timestamp,
         OverallRating  |-> r.OverallRating,
         SpeakerRating  |-> r.SpeakerRating,
         WorkshopRating |-> r.WorkshopRating,
         FoodRating     |-> r.FoodRating,
         WhatDidYouLike |-> r.WhatDidYouLike,
         Improvements   |-> r.Improvements,
         AttendedEvents |-> r.AttendedEvents,
         YearOfStudy    |-> r.YearOfStudy,
         like_sentiment                  |-> like,
         improvements_sentiment          |-> impr,
         like_sentiment_category         |-> get_sentiment_category(like),
         improvements_sentiment_category |-> get_sentiment_category(impr)]]]

-----------------------------------------------------------------------------
(* visualize_data *)

\* df[df[cat_col] == label][text_col]
Select(df, cat_col, label, text_col) ==
  LET kept == SelectSeq(df.rows, LAMBDA r : r[cat_col] = label)
  IN [i \in 1..Len(kept) |-> kept[i][text_col]]

\* " ".join(texts[lo..hi])
RECURSIVE JoinRange(_, _, _)
JoinRange(texts, lo, hi) ==
  IF lo > hi THEN ""
  ELSE IF lo = hi THEN texts[lo]
       ELSE LET mid == (lo + hi) \div 2
            IN JoinRange(texts, lo, mid) \o " " \o JoinRange(texts, mid + 1, hi)

Join(texts) == JoinRange(texts, 1, Len(texts))

positive_feedback(df) ==
  Join(Select(df, "like_sentiment_category", "Positive", "WhatDidYouLike"))

negative_feedback(df) ==
  Join(Select(df, "improvements_sentiment_category", "Negative", "Improvements"))

\* WordCloud(...).generate(text) raises ValueError ("We need at least 1 word to
\* plot a word cloud, got 0.") on a text without words.  The renderer's
\* tokeniser and stop-word list are not modelled: a corpus of feedback
\* sentences is taken to hold a word.
WordCloudRaises(text) == text = ""

FigureFiles ==
  << "overall_rating_distribution.png",
     "sentiment_analysis_distribution.png",
     "rating_by_year.png",
     "feedback_wordclouds.png" >>

-----------------------------------------------------------------------------
(* generate_insights *)

\* the sum of vals[lo..hi]
RECURSIVE SumRange(_, _, _)
SumRange(vals, lo, hi) ==
  IF lo > hi THEN 0
  ELSE IF lo = hi THEN vals[lo]
       ELSE LET mid == (lo + hi) \div 2
            IN SumRange(vals, lo, mid) + SumRange(vals, mid + 1, hi)

Sum(vals) == SumRange(vals, 1, Len(vals))

\* the number of cells equal to v
Count(vals, v) == Cardinality({i \in 1..Len(vals) : vals[i] = v})

RECURSIVE Gcd(_, _)
Gcd(a, b) == IF b = 0 THEN a ELSE Gcd(b, a % b)

RECURSIVE IsPow2(_)
IsPow2(n) == n = 1 \/ (n > 1 /\ n % 2 = 0 /\ IsPow2(n \div 2))

\* num / den is a binary fraction, which float64 holds exactly
Dyadic(num, den) == IsPow2(den \div Gcd(num, den))

\* f"{x:.Nf}" of x = num / den >= 0, in units of 1 / scale (scale = 10^N): the
\* nearest such number; a decimal tie goes to the even digit when float64
\* holds x exactly, and to the side of float64's representation error
\* otherwise, which the model leaves open.
Format(num, den, scale, exact) ==
  LET q == (num * scale) \div den
      r == (num * scale) % den
  IN IF 2 * r < den THEN {q}
     ELSE IF 2 * r > den THEN {q + 1}
     ELSE IF exact THEN {IF q % 2 = 0 THEN q ELSE q + 1}
     ELSE {q, q + 1}

\* Satisfaction with a fault: a mean of exactly 4 or 3 takes the higher label
SatisfactionInclusive(sum, n) ==
  IF sum >= 4 * n THEN "very satisfied"
  ELSE IF sum >= 3 * n THEN "moderately satisfied"
       ELSE "satisfaction is low"

\* the three-way label chosen from avg_rating = sum / n
Satisfaction(sum, n) ==
  IF sum > 4 * n THEN "very satisfied"
  ELSE IF sum > 3 * n THEN "moderately satisfied"
       ELSE "satisfaction is low"

\* df[col].value_counts(normalize=True) * 100, then .get(label, 0): the
\* percentage of rows carrying the label, as [num, den]
Percentage(df, col, label) ==
  [num |-> 100 * Count(Column(df, col), label), den |-> Len(df.rows)]

\* the labels of a groupby over a column: its categories when the column is
\* categorical (every category, observed or not), else the values present
GroupLabels(df, col) ==
  IF df.categories # {} THEN df.categories
  ELSE {df.rows[i][col] : i \in 1..Len(df.rows)}

\* the sum of column col over the rows of one group
GroupSum(df, by, label, col) ==
  Sum([i \in 1..Len(df.rows) |->
         IF df.rows[i][by] = label THEN df.rows[i][col] ELSE 0])

\* df.groupby(by)[col].mean(): per label, the mean as [sum, count]
\* (count = 0 is the NaN mean of a category without rows)
groupby_mean(df, by, col) ==
  [g \in GroupLabels(df, by) |->
     [sum |-> GroupSum(df, by, g, col), count |-> Count(Column(df, by), g)]]

\* the labels in the order of the grouped index: ascending
RECURSIVE Ascending(_)
Ascending(labels) ==
  IF labels = {} THEN << >>
  ELSE LET m == CHOOSE x \in labels : \A y \in labels : x <= y
       IN <<m>> \o Ascending(labels \ {m})

\* MeanLess with a fault: a later group of equal mean replaces the minimum
MeanLessOrEqual(a, b) == a.sum * b.count <= b.sum * a.count

MeanLess(a, b) == a.sum * b.count < b.sum * a.count

\* Series.idxmin(): the label of the first minimum in index order, NaN skipped
RECURSIVE IdxMinFrom(_, _, _)
IdxMinFrom(means, order, best) ==
  IF Len(order) = 0 THEN best
  ELSE LET g == Head(order)
       IN IF means[g].count = 0 THEN IdxMinFrom(means, Tail(order), best)
          ELSE IF best = NaN \/ MeanLess(means[g], means[best])
               THEN IdxMinFrom(means, Tail(order), g)
               ELSE IdxMinFrom(means, Tail(order), best)

idxmin(means) == IdxMinFrom(means, Ascending(DOMAIN means), NaN)

NoReport ==
  [avg_rating |-> NaN, satisfaction |-> "", positive_pct |-> NaN,
   negative_pct |-> NaN, lowest_rating_year |-> NaN, lowest_rating |-> NaN]

\* the reports generate_insights may print for a table
generate_insights(df) ==
  LET total == Sum(Column(df, "OverallRating"))
      n     == Len(df.rows)
      pos   == Percentage(df, "like_sentiment_category", "Positive")
      neg   == Percentage(df, "improvements_sentiment_category", "Negative")
      year_ratings == groupby_mean(df, "YearOfStudy", "OverallRating")
      lowest_rating_year == idxmin(year_ratings)
      low   == year_ratings[lowest_rating_year]
  IN { [avg_rating         |-> a,
        satisfaction       |-> Satisfaction(total, n),
        positive_pct       |-> p,
        negative_pct       |-> q,
        lowest_rating_year |-> lowest_rating_year,
        lowest_rating      |-> m] :
       a \in Format(total, n, 100, Dyadic(total, n)),
       p \in Format(pos.num, pos.den, 10, Dyadic(pos.num, 100 * pos.den)),
       q \in Format(neg.num, neg.den, 10, Dyadic(neg.num, 100 * neg.den)),
       m \in Format(low.sum, low.count, 100, Dyadic(low.sum, low.count)) }

-----------------------------------------------------------------------------
(* __main__ : the pipeline *)

\* Step 1: feedback_df = create_dummy_data()
CreateDummyData ==
  /\ pc = "start"
  /\ \E seed \in 0..MaxSeed : feedback_df' = create_dummy_data(seed)
  /\ pc' = "loaded"
  /\ UNCHANGED <<scorer, cleaned_df, sentiment_df, saved, open_figures, report>>

\* CleanData with a fault: clean_data(feedback_df) without the copy cleans the
\* generator's table itself
CleanDataInPlace ==
  /\ pc = "loaded"
  /\ cleaned_df' = clean_data(feedback_df)
  /\ feedback_df' = cleaned_df'
  /\ pc' = "cleaned"
  /\ UNCHANGED <<scorer, sentiment_df, saved, open_figures, report>>

\* Step 2: cleaned_df = clean_data(feedback_df.copy())
CleanData ==
  /\ pc = "loaded"
  /\ cleaned_df' = clean_data(feedback_df)
  /\ pc' = "cleaned"
  /\ UNCHANGED <<scorer, feedback_df, sentiment_df, saved, open_figures, report>>

\* Step 3: sentiment_df = perform_sentiment_analysis(cleaned_df.copy())
PerformSentimentAnalysis ==
  /\ pc = "cleaned"
  /\ sentiment_df' = perform_sentiment_analysis(cleaned_df, scorer)
  /\ pc' = "scored"
  /\ UNCHANGED <<scorer, feedback_df, cleaned_df, saved, open_figures, report>>

\* Step 4: visualize_data(sentiment_df).  Three figures are drawn and saved,
\* then the fourth is opened and the two word clouds are generated; a raise
\* there ends the process with the fourth file unsaved.  No figure is closed.
VisualizeData ==
  /\ pc = "scored"
  /\ open_figures' = open_figures + Len(FigureFiles)
  /\ IF WordCloudRaises(positive_feedback(sentiment_df))
        \/ WordCloudRaises(negative_feedback(sentiment_df))
     THEN /\ saved' = saved \o SubSeq(FigureFiles, 1, 3)
          /\ pc' = "crashed"
     ELSE /\ saved' = saved \o FigureFiles
          /\ pc' = "visualized"
  /\ UNCHANGED <<scorer, feedback_df, cleaned_df, sentiment_df, report>>

\* Step 5: generate_insights(sentiment_df), then the closing message
GenerateInsights ==
  /\ pc = "visualized"
  /\ report' \in generate_insights(sentiment_df)
  /\ pc' = "done"
  /\ UNCHANGED <<scorer, feedback_df, cleaned_df, sentiment_df, saved, open_figures>>

Init ==
  /\ pc = "start"
  /\ scorer \in Lexicons
  /\ feedback_df = NoDF
  /\ cleaned_df = NoDF
  /\ sentiment_df = NoDF
  /\ saved = << >>
  /\ open_figures = 0
  /\ report = NoReport

Next ==
  \/ CreateDummyData
  \/ CleanData
  \/ PerformSentimentAnalysis
  \/ VisualizeData
  \/ GenerateInsights

Spec == Init /\ [][Next]_vars

-----------------------------------------------------------------------------
(* The stages on a table that was loaded rather than generated             *)
(* (df = pd.read_csv('event_feedback.csv') of __main__): any table of the  *)
(* base schema.  The tables tried are small; each family varies the        *)
(* columns one stage reads and fills the others with a fixed pattern.      *)

Cells == {NaN} \cup {F(r) : r \in RatingLow..(RatingHigh - 1)}

Table(n, overall, speaker, workshop, food, like, impr, year) ==
  [rows |-> [i \in 1..n |->
      [Timestamp      |-> i - 1,
       OverallRating  |-> overall[i],
       SpeakerRating  |-> speaker[i],
       WorkshopRating |-> workshop[i],
       FoodRating     |-> food[i],
       WhatDidYouLike |-> like[i],
       Improvements   |-> impr[i],
       AttendedEvents |-> Cycle(AttendedEventsTexts, i),
       YearOfStudy    |-> year[i]]],
   categories |-> {}]

PatternOverall(n) == [i \in 1..n |-> RatingLow + ((2 * i) % (RatingHigh - RatingLow))]
PatternYear(n)    == [i \in 1..n |-> YearLow + (i % (YearHigh - YearLow))]
PatternRating(n, k) ==
  [i \in 1..n |-> F(RatingLow + ((k * i) % (RatingHigh - RatingLow)))]
PatternLike(n, o) == [i \in 1..n |-> Cycle(WhatDidYouLikeTexts, i + o)]
PatternImpr(n, o) == [i \in 1..n |-> Cycle(ImprovementsTexts, i + o)]

\* tables for clean_data: SpeakerRating takes every column of ratings and
\* missing cells; WorkshopRating is all missing or missing in its even rows;
\* FoodRating is missing in its first row; the texts are empty in the rows a
\* shift e picks
CleanInputs ==
  UNION { { Table(n, PatternOverall(n), speaker,
                  [i \in 1..n |-> IF w = 0 \/ i % 2 = 0 THEN NaN
                                  ELSE PatternRating(n, 2)[i]],
                  [i \in 1..n |-> IF i = 1 THEN NaN ELSE PatternRating(n, 3)[i]],
                  [i \in 1..n |-> IF (i + e) % 3 = 0 THEN "" ELSE PatternLike(n, 0)[i]],
                  [i \in 1..n |-> IF (i + e) % 2 = 0 THEN "" ELSE PatternImpr(n, 0)[i]],
                  PatternYear(n)) :
              speaker \in [1..n -> Cells], w \in 0..1, e \in 0..2 } :
          n \in 1..MaxRows }

\* tables for perform_sentiment_analysis and visualize_data: complete tables
\* whose texts start at a shift of the two text lists
TextInputs ==
  { Table(n, PatternOverall(n), PatternRating(n, 1), PatternRating(n, 2),
          PatternRating(n, 3), PatternLike(n, o), PatternImpr(n, o),
          PatternYear(n)) :
      n \in 1..MaxRows, o \in 0..1 }

\* tables for generate_insights: every OverallRating and YearOfStudy column;
\* every row carries the first text of each list
InsightTable(n, overall, year) ==
  Table(n, overall, PatternRating(n, 1), PatternRating(n, 2), PatternRating(n, 3),
        [i \in 1..n |-> WhatDidYouLikeTexts[1]],
        [i \in 1..n |-> ImprovementsTexts[1]], year)

InsightInputs ==
  UNION { { InsightTable(n, overall, year) :
              overall \in [1..n -> RatingLow..(RatingHigh - 1)],
              year \in [1..n -> YearLow..(YearHigh - 1)] } :
          n \in 1..MaxInsightRows }

\* the tables the specification's worked examples name
ExampleSpeaker(vals) ==
  LET n == Len(vals)
  IN Table(n, PatternOverall(n), vals, PatternRating(n, 2),
           [i \in 1..n |-> IF i = 1 THEN NaN ELSE PatternRating(n, 3)[i]],
           PatternLike(n, 0), PatternImpr(n, 0), PatternYear(n))

ExampleInputs ==
  { ExampleSpeaker(<<F(1), F(2), F(2), F(4), F(5), NaN>>),
    ExampleSpeaker(<<F(1), NaN, F(2), F(4), F(5)>>),
    InsightTable(10, <<5, 5, 5, 5, 5, 5, 5, 5, 5, 1>>, PatternYear(10)),
    InsightTable(5, <<3, 4, 5, 2, 4>>, <<1, 2, 2, 3, 4>>) }

\* a lexicon under which the first "like" text is Positive and the first
\* "improvements" text is Negative: both word clouds have a corpus
PassingLexicon == Lexicon(1, 5)

InitTables ==
  /\ pc = "loaded"
  /\ \/ feedback_df \in CleanInputs /\ scorer = Lexicon(1, 0)
     \/ feedback_df \in TextInputs /\ scorer \in Lexicons
     \/ feedback_df \in InsightInputs \cup ExampleInputs /\ scorer = PassingLexicon
  /\ cleaned_df = NoDF
  /\ sentiment_df = NoDF
  /\ saved = << >>
  /\ open_figures = 0
  /\ report = NoReport

NextTables ==
  \/ CleanData
  \/ PerformSentimentAnalysis
  \/ VisualizeData
  \/ GenerateInsights

SpecTables == InitTables /\ [][NextTables]_vars

-----------------------------------------------------------------------------
(* Properties *)

AfterClean  == pc \in {"cleaned", "scored", "visualized", "crashed", "done"}
AfterScored == pc \in {"scored", "visualized", "crashed", "done"}

Rows(df) == 1..Len(df.rows)

Missing(df, col) == {i \in Rows(df) : df.rows[i][col] = NaN}

Present(df, col) == [i \in 1..Len(dropna(Column(df, col))) |-> dropna(Column(df, col))[i]]

TextCols == <<"WhatDidYouLike", "Improvements">>

\* C1: the table clean_data returns has no missing cell in SpeakerRating,
\* WorkshopRating and FoodRating and no empty string in WhatDidYouLike and
\* Improvements, whatever cells of its input were missing or empty.
C1_NothingMissingAfterClean ==
  AfterClean =>
    /\ \A c \in 1..Len(RatingCols) : Missing(cleaned_df, RatingCols[c]) = {}
    /\ \A c \in 1..Len(TextCols) :
         \A i \in Rows(cleaned_df) : cleaned_df.rows[i][TextCols[c]] # ""

-----------------------------------------------------------------------------
PolarityCutoff == 1000000

SentimentCols ==
  << <<"WhatDidYouLike", "like_sentiment", "like_sentiment_category">>,
     <<"Improvements", "improvements_sentiment", "improvements_sentiment_category">> >>

\* C2: every row of the scored table carries, for each of the two texts, the
\* polarity the scorer gives the text and exactly one label: Positive exactly
\* when the polarity is above 0.1, Negative exactly when it is below -0.1,
\* Neutral otherwise; so 0.1 and -0.1 themselves are Neutral.
C2_CategoryByCutoffs ==
  AfterScored =>
    \A i \in Rows(sentiment_df) : \A c \in 1..Len(SentimentCols) :
      LET r   == sentiment_df.rows[i]
          p   == r[SentimentCols[c][2]]
          cat == r[SentimentCols[c][3]]
      IN /\ p = scorer[r[SentimentCols[c][1]]]
         /\ cat \in {"Positive", "Negative", "Neutral"}
         /\ (cat = "Positive") <=> (p > PolarityCutoff)
         /\ (cat = "Negative") <=> (p < -PolarityCutoff)
         /\ (cat = "Neutral") <=> (p >= -PolarityCutoff /\ p <= PolarityCutoff)
         /\ (p = PolarityCutoff \/ p = -PolarityCutoff) => cat = "Neutral"
         /\ (p = PolarityCutoff + 1) => cat = "Positive"
         /\ (p = -2 * PolarityCutoff) => cat = "Negative"

\* a scored table with a row at polarity exactly 0.1 and a row at exactly
\* -0.1, both labelled Neutral
C2_Witness ==
  /\ AfterScored
  /\ \E i \in Rows(sentiment_df) :
       /\ sentiment_df.rows[i].like_sentiment = PolarityCutoff
       /\ sentiment_df.rows[i].like_sentiment_category = "Neutral"
  /\ \E i \in Rows(sentiment_df) :
       /\ sentiment_df.rows[i].improvements_sentiment = -PolarityCutoff
       /\ sentiment_df.rows[i].improvements_sentiment_category = "Neutral"

-----------------------------------------------------------------------------
\* the k-th order statistic of vals: the value with fewer than k values below
\* it and at least k values at or below it
OrderStatistic(vals, k) ==
  CHOOSE v \in {vals[i] : i \in 1..Len(vals)} :
    /\ Cardinality({i \in 1..Len(vals) : vals[i] < v}) < k
    /\ Cardinality({i \in 1..Len(vals) : vals[i] <= v}) >= k

\* twice the median of the values (doubled cells): twice the middle order
\* statistic of an odd number, the sum of the two central ones of an even number
TwiceMedian(vals) ==
  LET n == Len(vals)
  IN IF n % 2 = 1 THEN 2 * OrderStatistic(vals, (n + 1) \div 2)
     ELSE OrderStatistic(vals, n \div 2) + OrderStatistic(vals, (n \div 2) + 1)

\* C3: in each rating column with a missing cell, every missing cell gets the
\* median of the column's own non-missing values (the middle order statistic
\* of an odd number, the mean of the two central ones of an even number; no
\* value at all leaves the cells missing) and every other cell is kept;
\* non-missing values [1,2,2,4,5] give 2 and [1,2,4,5] give 3.
C3_FilledWithColumnMedian ==
  AfterClean =>
    /\ \A c \in 1..Len(RatingCols) :
         LET col  == RatingCols[c]
             vals == Present(feedback_df, col)
         IN Missing(feedback_df, col) # {} =>
              \A i \in Rows(feedback_df) :
                IF i \in Missing(feedback_df, col)
                THEN IF Len(vals) = 0 THEN cleaned_df.rows[i][col] = NaN
                     ELSE 2 * cleaned_df.rows[i][col] = TwiceMedian(vals)
                ELSE cleaned_df.rows[i][col] = feedback_df.rows[i][col]
    /\ Column(feedback_df, "SpeakerRating") = <<F(1), F(2), F(2), F(4), F(5), NaN>>
         => cleaned_df.rows[6].SpeakerRating = F(2)
    /\ Column(feedback_df, "SpeakerRating") = <<F(1), NaN, F(2), F(4), F(5)>>
         => cleaned_df.rows[2].SpeakerRating = F(3)

\* the even-count example: [1, missing, 2, 4, 5] cleaned to [1, 3, 2, 4, 5],
\* beside a column whose fill is another median
C3_Witness ==
  /\ AfterClean
  /\ Column(feedback_df, "SpeakerRating") = <<F(1), NaN, F(2), F(4), F(5)>>
  /\ Column(cleaned_df, "SpeakerRating") = <<F(1), F(3), F(2), F(4), F(5)>>
  /\ Missing(feedback_df, "FoodRating") # {}
  /\ \E i \in Missing(feedback_df, "FoodRating") :
       cleaned_df.rows[i].FoodRating # F(3)

-----------------------------------------------------------------------------
\* C4: clean_data applied to a table clean_data returned gives that table
\* back, cell for cell: clean_data(clean_data(t)) = clean_data(t).
C4_CleanIdempotent ==
  AfterClean => clean_data(cleaned_df) = cleaned_df

\* a cleaned table that the first pass did change: a rating was imputed and
\* an empty text replaced
C4_Witness ==
  /\ AfterClean
  /\ \E i \in Rows(feedback_df) :
       /\ feedback_df.rows[i].SpeakerRating = NaN
       /\ cleaned_df.rows[i].SpeakerRating # NaN
  /\ \E i \in Rows(feedback_df) :
       /\ feedback_df.rows[i].Improvements = ""
       /\ cleaned_df.rows[i].Improvements = NoFeedback

-----------------------------------------------------------------------------
NoPositiveLike ==
  \A i \in Rows(sentiment_df) : sentiment_df.rows[i].like_sentiment_category # "Positive"

NoNegativeImprovement ==
  \A i \in Rows(sentiment_df) :
    sentiment_df.rows[i].improvements_sentiment_category # "Negative"

\* C5: when no row is Positive for the "like" text (or none Negative for the
\* improvements), the word-cloud corpus is the empty string and the run does
\* not crash on it: it goes on to generate_insights.
C5_EmptyCorpusDoesNotCrash ==
  (AfterScored /\ pc # "scored" /\ (NoPositiveLike \/ NoNegativeImprovement)) =>
    /\ NoPositiveLike => positive_feedback(sentiment_df) = ""
    /\ NoNegativeImprovement => negative_feedback(sentiment_df) = ""
    /\ pc \in {"visualized", "done"}

-----------------------------------------------------------------------------
\* a doubled cell holding one of the integers 1..5
IntegerRating(cell) == cell % 2 = 0 /\ (cell \div 2) \in 1..5

\* C6 as stated: after clean_data every cell of OverallRating, SpeakerRating,
\* WorkshopRating and FoodRating of a generated table is present and is an
\* integer in 1..5.
C6_AllRatingsIntegers ==
  AfterClean =>
    \A i \in Rows(cleaned_df) :
      /\ cleaned_df.rows[i].OverallRating \in 1..5
      /\ \A c \in 1..Len(RatingCols) :
           IntegerRating(cleaned_df.rows[i][RatingCols[c]])

\* C6 as amended: after clean_data every cell of the four rating columns of a
\* generated table is present and lies in 1..5; OverallRating and the cells
\* that were present before cleaning are integers, unchanged; an imputed cell
\* is the column median, an integer or an integer plus one half.
C6_RatingsPresentInRange ==
  AfterClean =>
    \A i \in Rows(cleaned_df) :
      /\ cleaned_df.rows[i].OverallRating \in 1..5
      /\ cleaned_df.rows[i].OverallRating = feedback_df.rows[i].OverallRating
      /\ \A c \in 1..Len(RatingCols) :
           LET before == feedback_df.rows[i][RatingCols[c]]
               after  == cleaned_df.rows[i][RatingCols[c]]
           IN /\ after # NaN
              /\ after \in F(1)..F(5)
              /\ before # NaN => (after = before /\ IntegerRating(after))

\* a cleaned generated table with an imputed cell that is no integer
C6_Witness ==
  /\ AfterClean
  /\ Len(cleaned_df.rows) = NumRecords
  /\ \E i \in Rows(cleaned_df) : \E c \in 1..Len(RatingCols) :
       /\ feedback_df.rows[i][RatingCols[c]] = NaN
       /\ cleaned_df.rows[i][RatingCols[c]] % 2 = 1

-----------------------------------------------------------------------------
\* the rows of a table in one year, and their ratings
YearRows(df, y) == {i \in Rows(df) : df.rows[i].YearOfStudy = y}

YearTotal(df, y) ==
  Sum([i \in 1..Len(df.rows) |->
         IF i \in YearRows(df, y) THEN df.rows[i].OverallRating ELSE 0])

YearsPresent(df) == {df.rows[i].YearOfStudy : i \in Rows(df)}

\* the mean rating of year y is at most that of year z
MeanAtMost(df, y, z) ==
  YearTotal(df, y) * Cardinality(YearRows(df, z))
    <= YearTotal(df, z) * Cardinality(YearRows(df, y))

LowestYears(df) ==
  {y \in YearsPresent(df) : \A z \in YearsPresent(df) : MeanAtMost(df, y, z)}

\* v (in hundredths) is num / den to two decimals
ToTwoDecimals(v, num, den) ==
  /\ 2 * (100 * num - v * den) <= den
  /\ 2 * (v * den - 100 * num) <= den

\* C7: the year generate_insights reports is the smallest label among the
\* years (with a row) of minimal mean OverallRating, and the value it reports
\* is that mean to two decimals; means {1: 3.0, 2: 4.5, 3: 2.0, 4: 4.0} report
\* year 3 with 2.00.
C7_LowestYearReported ==
  pc = "done" =>
    /\ report.lowest_rating_year \in LowestYears(sentiment_df)
    /\ \A y \in LowestYears(sentiment_df) : report.lowest_rating_year <= y
    /\ ToTwoDecimals(report.lowest_rating,
                     YearTotal(sentiment_df, report.lowest_rating_year),
                     Cardinality(YearRows(sentiment_df, report.lowest_rating_year)))
    /\ ( /\ Column(sentiment_df, "OverallRating") = <<3, 4, 5, 2, 4>>
         /\ Column(sentiment_df, "YearOfStudy") = <<1, 2, 2, 3, 4>> )
       => (report.lowest_rating_year = 3 /\ report.lowest_rating = 200)

\* a report on a table where two years tie for the lowest mean and the larger
\* label comes first in the table
C7_Witness ==
  /\ pc = "done"
  /\ Cardinality(LowestYears(sentiment_df)) >= 2
  /\ sentiment_df.rows[1].YearOfStudy # report.lowest_rating_year
  /\ sentiment_df.rows[1].YearOfStudy \in LowestYears(sentiment_df)

-----------------------------------------------------------------------------
OverallTotal == Sum(Column(sentiment_df, "OverallRating"))

\* C8: generate_insights gives one of three labels by the mean OverallRating:
\* "very satisfied" above 4, "moderately satisfied" above 3 and up to 4,
\* "satisfaction is low" up to 3; nine 5s and a 1 (mean 4.6) are very satisfied.
C8_SatisfactionTiers ==
  pc = "done" =>
    LET n == Len(sentiment_df.rows)
    IN /\ report.satisfaction \in
            {"very satisfied", "moderately satisfied", "satisfaction is low"}
       /\ (report.satisfaction = "very satisfied") <=> (OverallTotal > 4 * n)
       /\ (report.satisfaction = "moderately satisfied")
            <=> (OverallTotal > 3 * n /\ OverallTotal <= 4 * n)
       /\ (report.satisfaction = "satisfaction is low") <=> (OverallTotal <= 3 * n)
       /\ ToTwoDecimals(report.avg_rating, OverallTotal, n)
       /\ Column(sentiment_df, "OverallRating") = <<5, 5, 5, 5, 5, 5, 5, 5, 5, 1>>
            => (report.satisfaction = "very satisfied" /\ report.avg_rating = 460)

\* a report on a table of several different ratings whose mean is exactly 4
C8_Witness ==
  /\ pc = "done"
  /\ OverallTotal = 4 * Len(sentiment_df.rows)
  /\ \E i \in Rows(sentiment_df) : sentiment_df.rows[i].OverallRating = 5
  /\ report.satisfaction = "moderately satisfied"

-----------------------------------------------------------------------------
\* C9: a generated table has exactly 100 records; exactly 10 rows are missing
\* in each of SpeakerRating, WorkshopRating and FoodRating; exactly 5 rows
\* have an empty Improvements; OverallRating and WhatDidYouLike are never
\* missing or empty; present ratings are in 1..5 and YearOfStudy in 1..4.
C9_GeneratedTableShape ==
  pc # "start" =>
    /\ Len(feedback_df.rows) = 100
    /\ \A c \in 1..Len(RatingCols) :
         Cardinality(Missing(feedback_df, RatingCols[c])) = 10
    /\ Cardinality({i \in Rows(feedback_df) : feedback_df.rows[i].Improvements = ""}) = 5
    /\ \A i \in Rows(feedback_df) :
         LET r == feedback_df.rows[i]
         IN /\ r.OverallRating \in 1..5
            /\ r.WhatDidYouLike # ""
            /\ r.WhatDidYouLike = WhatDidYouLikeTexts[((i - 1) % 10) + 1]
            /\ r.YearOfStudy \in 1..4
            /\ \A c \in 1..Len(RatingCols) :
                 r[RatingCols[c]] = NaN \/ IntegerRating(r[RatingCols[c]])

\* a generated table with a row missing in two of the rating columns
C9_Witness ==
  /\ pc = "loaded"
  /\ Len(feedback_df.rows) = 100
  /\ Missing(feedback_df, "SpeakerRating") \cap Missing(feedback_df, "WorkshopRating") # {}
  /\ Missing(feedback_df, "SpeakerRating") # Missing(feedback_df, "WorkshopRating")

-----------------------------------------------------------------------------
SentimentFields ==
  {"like_sentiment", "improvements_sentiment",
   "like_sentiment_category", "improvements_sentiment_category"}

\* C10: a table handed to a stage is not changed by any later stage: once
\* made, feedback_df, cleaned_df and sentiment_df stay as they are; after
\* clean_data feedback_df still has its missing ratings and empty
\* Improvements, and after perform_sentiment_analysis cleaned_df has no
\* sentiment column.
C10_StagesWorkOnSnapshots ==
  /\ [][ /\ pc # "start" => feedback_df' = feedback_df
         /\ AfterClean => cleaned_df' = cleaned_df
         /\ AfterScored => sentiment_df' = sentiment_df ]_vars
  /\ [](AfterClean =>
          /\ \A c \in 1..Len(RatingCols) : Missing(feedback_df, RatingCols[c]) # {}
          /\ \E i \in Rows(feedback_df) : feedback_df.rows[i].Improvements = ""
          /\ feedback_df.categories = {})
  /\ [](AfterScored =>
          \A i \in Rows(cleaned_df) : DOMAIN cleaned_df.rows[i] \cap SentimentFields = {})

\* the end of a run: three different tables, the first still uncleaned
C10_Witness ==
  /\ pc = "done"
  /\ Missing(feedback_df, "FoodRating") # {}
  /\ Missing(cleaned_df, "FoodRating") = {}
  /\ cleaned_df # feedback_df
  /\ \A i \in Rows(sentiment_df) : SentimentFields \subseteq DOMAIN sentiment_df.rows[i]

====
